---------------------------- MODULE Spec2Model ----------------------------
(***************************************************************************)
(* The QOI codec of this repository: QOIEncoder.encode and                 *)
(* QOIDecoder.decode of src/qoi.py and of src/qoi2.py, as state machines.  *)
(*                                                                         *)
(* A call is entered (argument validation, header, locals), runs its pixel *)
(* loop one iteration per step, and returns.  The locals of the running    *)
(* call are the record enc (encode) or dec (decode); the _index arrays     *)
(* that the qoi2 objects keep between calls are encoder_index and          *)
(* decoder_index.                                                          *)
(*                                                                         *)
(* An index (64 slots, numbered from 0 in the source) is a sequence: slot   *)
(* s is element s + 1.                                                     *)
(*                                                                         *)
(* A 32-bit word is written as its four bytes, most significant first:     *)
(* the word w is <<w >> 24, (w >> 16) & 255, (w >> 8) & 255, w & 255>>.    *)
(* Two words are equal exactly when their byte tuples are.                 *)
(***************************************************************************)
EXTENDS Integers, Sequences, FiniteSets, TLC

VARIABLES
    pc,             \* where the program is: idle, in a loop, returned
    args,           \* the arguments of the running or last encode call, and
                    \* the module (qoi, qoi2) whose encode it is; dargs alike
    enc,            \* the locals of the running encode call
    eres,           \* what encode returned
    dargs,          \* the arguments of the running or last decode call
    dec,            \* the locals of the running decode call
    dres,           \* what decode returned
    encoder_index,  \* qoi2 QOIEncoder._index
    decoder_index,  \* qoi2 QOIDecoder._index
    calls           \* encode calls made on the QOIEncoder object so far

vars == <<pc, args, enc, eres, dargs, dec, dres, encoder_index, decoder_index, calls>>

---------------------------------------------------------------------------
(* Bounds of the model. *)

\* pixels of an image in the small-image specifications
MaxPixels == 3
\* encode/decode rounds made on one pair of qoi2 objects
MaxCalls == 2
\* longest stretch of equal pixels in the run specification
MaxRun == 126
\* opcode bytes in the body of a hand-made stream
MaxBody == 2

---------------------------------------------------------------------------
(* Program constants. *)

QOI_HEADER_SIZE == 14
QOI_PIXELS_MAX == 400000000
QOI_OP_INDEX == 0
QOI_OP_DIFF == 64
QOI_OP_LUMA == 128
QOI_OP_RUN == 192
QOI_OP_RGB == 254
QOI_OP_RGBA == 255
QOI_MAGIC == <<113, 111, 105, 102>>
QOI_PADDING == <<0, 0, 0, 0, 0, 0, 0, 1>>

\* b & 0xC0
Mask2(b) == (b \div 64) * 64

\* struct '>I': a u32 as four bytes, big-endian
PackU32(n) == <<(n \div 16777216) % 256, (n \div 65536) % 256, (n \div 256) % 256, n % 256>>

\* struct '>I' read at 0-based offset off of data
UnpackU32(data, off) ==
    data[off + 1] * 16777216 + data[off + 2] * 65536 + data[off + 3] * 256 + data[off + 4]

\* (r * 3 + g * 5 + b * 7 + a * 11) & 63
Hash(r, g, b, a) == (r * 3 + g * 5 + b * 7 + a * 11) % 64

\* Optional[bytes]: None, or the bytes
None == <<>>

Some(bytes) == <<bytes>>

NoResult == <<>>

NoFrame == [live |-> FALSE]

\* a sequence of pixels (tuples of channel bytes) as one byte buffer
Flatten(ps) ==
    IF Len(ps) = 0 THEN <<>>
    ELSE LET c == Len(ps[1])
         IN  [k \in 1..(Len(ps) * c) |-> ps[((k - 1) \div c) + 1][((k - 1) % c) + 1]]

---------------------------------------------------------------------------
(* src/qoi.py, QOIEncoder.encode *)

\* (r << 24) | (g << 16) | (b << 8) | a
PxInt(r, g, b, a) == <<r, g, b, a>>

\* prev_px_int = (255 << 24)
PrevPxIntInit == <<255, 0, 0, 0>>

\* index = [0] * 64
IndexInit == [s \in 1..64 |-> <<0, 0, 0, 0>>]

\* EncodeRejects with the size test on the product width * height
EncodeRejectsProduct(width, height, channels, colorspace) ==
    \/ width = 0
    \/ height = 0
    \/ channels < 3
    \/ channels > 4
    \/ colorspace > 1
    \/ width * height > QOI_PIXELS_MAX

\* EncodeRejects with > for >= in the size test
EncodeRejectsGreater(width, height, channels, colorspace) ==
    \/ width = 0
    \/ height = 0
    \/ channels < 3
    \/ channels > 4
    \/ colorspace > 1
    \/ height > QOI_PIXELS_MAX \div width

\* the size validation of encode
EncodeRejects(width, height, channels, colorspace) ==
    \/ width = 0
    \/ height = 0
    \/ channels < 3
    \/ channels > 4
    \/ colorspace > 1
    \/ height >= QOI_PIXELS_MAX \div width

\* Header with the two u32 fields packed little-endian ('<' for '>')
HeaderLittleEndian(width, height, channels, colorspace) ==
    QOI_MAGIC
    \o <<width % 256, (width \div 256) % 256, (width \div 65536) % 256,
         (width \div 16777216) % 256>>
    \o <<height % 256, (height \div 256) % 256, (height \div 65536) % 256,
         (height \div 16777216) % 256>>
    \o <<channels, colorspace>>

\* struct.pack_into('>4sIIBB', ...)
Header(width, height, channels, colorspace) ==
    QOI_MAGIC \o PackU32(width) \o PackU32(height) \o <<channels, colorspace>>

\* OpSameAlpha with the two nibbles of the second LUMA byte exchanged
OpSameAlphaLumaSwapped(r, g, b, prev_r, prev_g, prev_b) ==
    LET vr == r - prev_r
        vg == g - prev_g
        vb == b - prev_b
        vg_r == vr - vg
        vg_b == vb - vg
    IN  IF -2 <= vr /\ vr <= 1 /\ -2 <= vg /\ vg <= 1 /\ -2 <= vb /\ vb <= 1
        THEN <<QOI_OP_DIFF + (vr + 2) * 16 + (vg + 2) * 4 + (vb + 2)>>
        ELSE IF -32 <= vg /\ vg <= 31 /\ -8 <= vg_r /\ vg_r <= 7 /\ -8 <= vg_b /\ vg_b <= 7
             THEN <<QOI_OP_LUMA + (vg + 32), (vg_b + 8) * 16 + (vg_r + 8)>>
             ELSE <<QOI_OP_RGB, r, g, b>>

\* the DIFF / LUMA / RGB bytes of a pixel whose alpha equals the previous one
OpSameAlpha(r, g, b, prev_r, prev_g, prev_b) ==
    LET vr == r - prev_r
        vg == g - prev_g
        vb == b - prev_b
        vg_r == vr - vg
        vg_b == vb - vg
    IN  IF -2 <= vr /\ vr <= 1 /\ -2 <= vg /\ vg <= 1 /\ -2 <= vb /\ vb <= 1
        THEN <<QOI_OP_DIFF + (vr + 2) * 16 + (vg + 2) * 4 + (vb + 2)>>
        ELSE IF -32 <= vg /\ vg <= 31 /\ -8 <= vg_r /\ vg_r <= 7 /\ -8 <= vg_b /\ vg_b <= 7
             THEN <<QOI_OP_LUMA + (vg + 32), (vg_r + 8) * 16 + (vg_b + 8)>>
             ELSE <<QOI_OP_RGB, r, g, b>>

\* the bytes of a pixel that is neither run nor index, 4-channel loop
Op4(r, g, b, a, prev_r, prev_g, prev_b, prev_a) ==
    IF a = prev_a
    THEN OpSameAlpha(r, g, b, prev_r, prev_g, prev_b)
    ELSE <<QOI_OP_RGBA, r, g, b, a>>

\* EncFrame with the buffer sized as the input, width * height * channels
EncFrameInputSized(pixels, width, height, channels, colorspace) ==
    [live |-> TRUE,
     i |-> 0,
     output |-> Header(width, height, channels, colorspace),
     max_size |-> QOI_HEADER_SIZE + width * height * channels,
     index |-> IndexInit,
     prev_r |-> 0, prev_g |-> 0, prev_b |-> 0, prev_a |-> 255,
     prev_px_int |-> PrevPxIntInit,
     run |-> 0,
     total_bytes |-> Len(pixels),
     last_pixel_index |-> Len(pixels) - channels]

\* the locals of encode when its loop is entered; output is the written part
\* output[:out_pos] of the pre-allocated buffer of max_size bytes
EncFrame(pixels, width, height, channels, colorspace) ==
    [live |-> TRUE,
     i |-> 0,
     output |-> Header(width, height, channels, colorspace),
     max_size |-> QOI_HEADER_SIZE + width * height * 5 + 8,
     index |-> IndexInit,
     prev_r |-> 0, prev_g |-> 0, prev_b |-> 0, prev_a |-> 255,
     prev_px_int |-> PrevPxIntInit,
     run |-> 0,
     total_bytes |-> Len(pixels),
     last_pixel_index |-> Len(pixels) - channels]

\* EncIter4 without the write of the pending run before another opcode
EncIter4NoFlush(f, pixels) ==
    LET r == pixels[f.i + 1]
        g == pixels[f.i + 2]
        b == pixels[f.i + 3]
        a == pixels[f.i + 4]
        px_int == PxInt(r, g, b, a)
        idx_pos == Hash(r, g, b, a)
        flushed == f.output
    IN  IF px_int = f.prev_px_int
        THEN IF f.run + 1 = 62 \/ f.i = f.last_pixel_index
             THEN [f EXCEPT !.output = @ \o <<QOI_OP_RUN + (f.run + 1 - 1)>>,
                            !.run = 0, !.i = @ + 4]
             ELSE [f EXCEPT !.run = @ + 1, !.i = @ + 4]
        ELSE IF f.index[idx_pos + 1] = px_int
             THEN [f EXCEPT !.output = flushed \o <<QOI_OP_INDEX + idx_pos>>,
                            !.run = 0,
                            !.prev_px_int = px_int,
                            !.prev_r = r, !.prev_g = g, !.prev_b = b, !.prev_a = a,
                            !.i = @ + 4]
             ELSE [f EXCEPT !.output = flushed \o
                                Op4(r, g, b, a, f.prev_r, f.prev_g, f.prev_b, f.prev_a),
                            !.run = 0,
                            !.index = [@ EXCEPT ![idx_pos + 1] = px_int],
                            !.prev_px_int = px_int,
                            !.prev_r = r, !.prev_g = g, !.prev_b = b, !.prev_a = a,
                            !.i = @ + 4]

\* one iteration of the 4-channel loop, for the pixel at byte offset f.i
EncIter4(f, pixels) ==
    LET r == pixels[f.i + 1]
        g == pixels[f.i + 2]
        b == pixels[f.i + 3]
        a == pixels[f.i + 4]
        px_int == PxInt(r, g, b, a)
        idx_pos == Hash(r, g, b, a)
        flushed == IF f.run > 0
                   THEN f.output \o <<QOI_OP_RUN + (f.run - 1)>>
                   ELSE f.output
    IN  IF px_int = f.prev_px_int
        THEN IF f.run + 1 = 62 \/ f.i = f.last_pixel_index
             THEN [f EXCEPT !.output = @ \o <<QOI_OP_RUN + (f.run + 1 - 1)>>,
                            !.run = 0, !.i = @ + 4]
             ELSE [f EXCEPT !.run = @ + 1, !.i = @ + 4]
        ELSE IF f.index[idx_pos + 1] = px_int
             THEN [f EXCEPT !.output = flushed \o <<QOI_OP_INDEX + idx_pos>>,
                            !.run = 0,
                            !.prev_px_int = px_int,
                            !.prev_r = r, !.prev_g = g, !.prev_b = b, !.prev_a = a,
                            !.i = @ + 4]
             ELSE [f EXCEPT !.output = flushed \o
                                Op4(r, g, b, a, f.prev_r, f.prev_g, f.prev_b, f.prev_a),
                            !.run = 0,
                            !.index = [@ EXCEPT ![idx_pos + 1] = px_int],
                            !.prev_px_int = px_int,
                            !.prev_r = r, !.prev_g = g, !.prev_b = b, !.prev_a = a,
                            !.i = @ + 4]

\* EncIter3 with the alpha term left out of the hash
EncIter3HashNoAlpha(f, pixels) ==
    LET r == pixels[f.i + 1]
        g == pixels[f.i + 2]
        b == pixels[f.i + 3]
        a == 255
        px_int == PxInt(r, g, b, a)
        idx_pos == Hash(r, g, b, 0)
        flushed == IF f.run > 0
                   THEN f.output \o <<QOI_OP_RUN + (f.run - 1)>>
                   ELSE f.output
    IN  IF px_int = f.prev_px_int
        THEN IF f.run + 1 = 62 \/ f.i = f.last_pixel_index
             THEN [f EXCEPT !.output = @ \o <<QOI_OP_RUN + (f.run + 1 - 1)>>,
                            !.run = 0, !.i = @ + 3]
             ELSE [f EXCEPT !.run = @ + 1, !.i = @ + 3]
        ELSE IF f.index[idx_pos + 1] = px_int
             THEN [f EXCEPT !.output = flushed \o <<QOI_OP_INDEX + idx_pos>>,
                            !.run = 0,
                            !.prev_px_int = px_int,
                            !.prev_r = r, !.prev_g = g, !.prev_b = b, !.prev_a = a,
                            !.i = @ + 3]
             ELSE [f EXCEPT !.output = flushed \o
                                OpSameAlpha(r, g, b, f.prev_r, f.prev_g, f.prev_b),
                            !.run = 0,
                            !.index = [@ EXCEPT ![idx_pos + 1] = px_int],
                            !.prev_px_int = px_int,
                            !.prev_r = r, !.prev_g = g, !.prev_b = b, !.prev_a = a,
                            !.i = @ + 3]

\* one iteration of the 3-channel loop, for the pixel at byte offset f.i
EncIter3(f, pixels) ==
    LET r == pixels[f.i + 1]
        g == pixels[f.i + 2]
        b == pixels[f.i + 3]
        a == 255
        px_int == PxInt(r, g, b, a)
        idx_pos == Hash(r, g, b, a)
        flushed == IF f.run > 0
                   THEN f.output \o <<QOI_OP_RUN + (f.run - 1)>>
                   ELSE f.output
    IN  IF px_int = f.prev_px_int
        THEN IF f.run + 1 = 62 \/ f.i = f.last_pixel_index
             THEN [f EXCEPT !.output = @ \o <<QOI_OP_RUN + (f.run + 1 - 1)>>,
                            !.run = 0, !.i = @ + 3]
             ELSE [f EXCEPT !.run = @ + 1, !.i = @ + 3]
        ELSE IF f.index[idx_pos + 1] = px_int
             THEN [f EXCEPT !.output = flushed \o <<QOI_OP_INDEX + idx_pos>>,
                            !.run = 0,
                            !.prev_px_int = px_int,
                            !.prev_r = r, !.prev_g = g, !.prev_b = b, !.prev_a = a,
                            !.i = @ + 3]
             ELSE [f EXCEPT !.output = flushed \o
                                OpSameAlpha(r, g, b, f.prev_r, f.prev_g, f.prev_b),
                            !.run = 0,
                            !.index = [@ EXCEPT ![idx_pos + 1] = px_int],
                            !.prev_px_int = px_int,
                            !.prev_r = r, !.prev_g = g, !.prev_b = b, !.prev_a = a,
                            !.i = @ + 3]

\* encode is called: validation, header, locals
Encode1Enter(pixels, width, height, channels, colorspace) ==
    /\ args' = [module |-> "qoi", pixels |-> pixels, width |-> width, height |-> height,
                channels |-> channels, colorspace |-> colorspace]
    /\ calls' = calls + 1
    /\ dargs' = NoFrame /\ dec' = NoFrame /\ dres' = NoResult
    /\ UNCHANGED <<encoder_index, decoder_index>>
    /\ IF EncodeRejects(width, height, channels, colorspace)
       THEN /\ pc' = "E1_returned"
            /\ enc' = NoFrame
            /\ eres' = <<<<>>, 0>>
       ELSE /\ pc' = "E1_loop"
            /\ enc' = EncFrame(pixels, width, height, channels, colorspace)
            /\ eres' = NoResult

\* for i in range(0, total_bytes, 4); an IndexError is raised when a pixel byte
\* past the end of pixels is read or a byte is written at or past max_size
Encode1Loop4 ==
    /\ pc = "E1_loop" /\ args.channels = 4 /\ enc.i < enc.total_bytes
    /\ IF enc.i + 4 > enc.total_bytes
       THEN pc' = "E1_raised" /\ enc' = NoFrame
       ELSE LET next == EncIter4(enc, args.pixels)
            IN  IF Len(next.output) > enc.max_size
                THEN pc' = "E1_raised" /\ enc' = NoFrame
                ELSE pc' = "E1_loop" /\ enc' = next
    /\ UNCHANGED <<args, eres, dargs, dec, dres, encoder_index, decoder_index, calls>>

\* for i in range(0, total_bytes, 3)
Encode1Loop3 ==
    /\ pc = "E1_loop" /\ args.channels = 3 /\ enc.i < enc.total_bytes
    /\ IF enc.i + 3 > enc.total_bytes
       THEN pc' = "E1_raised" /\ enc' = NoFrame
       ELSE LET next == EncIter3(enc, args.pixels)
            IN  IF Len(next.output) > enc.max_size
                THEN pc' = "E1_raised" /\ enc' = NoFrame
                ELSE pc' = "E1_loop" /\ enc' = next
    /\ UNCHANGED <<args, eres, dargs, dec, dres, encoder_index, decoder_index, calls>>

\* the loop is over: the end marker is appended and the written part returned
Encode1Return ==
    /\ pc = "E1_loop" /\ enc.i >= enc.total_bytes
    /\ pc' = "E1_returned"
    /\ eres' = <<enc.output \o QOI_PADDING, Len(enc.output) + 8>>
    /\ UNCHANGED <<args, enc, dargs, dec, dres, encoder_index, decoder_index, calls>>

---------------------------------------------------------------------------
(* src/qoi.py, QOIDecoder.decode *)

DecodeFail == <<None, 0, 0, 0, 0>>

\* bytearray(n)
Zeros(n) == [k \in 1..n |-> 0]

\* the locals of decode when its loop is entered; n counts the iterations made
DecFrame(data, channels) ==
    LET width == UnpackU32(data, 4)
        height == UnpackU32(data, 8)
        desc_channels == data[13]
        colorspace == data[14]
        out_channels == IF channels # 0 THEN channels ELSE desc_channels
        px_count == width * height
    IN  [live |-> TRUE,
         width |-> width, height |-> height,
         desc_channels |-> desc_channels, colorspace |-> colorspace,
         out_channels |-> out_channels,
         px_count |-> px_count,
         output |-> Zeros(px_count * out_channels),
         index |-> IndexInit,
         r |-> 0, g |-> 0, b |-> 0, a |-> 255,
         data_len |-> Len(data) - 8,
         p |-> QOI_HEADER_SIZE,
         run |-> 0,
         out_pos |-> 0,
         n |-> 0]

\* the header checks of decode
DecodeRejects(data) ==
    \/ Len(data) < QOI_HEADER_SIZE + 8
    \/ SubSeq(data, 1, 4) # QOI_MAGIC
    \/ UnpackU32(data, 4) = 0
    \/ UnpackU32(data, 8) = 0

\* DecOpcode with the RGB opcode setting a to 255
DecOpcodeRGBOpaque(f, data) ==
    LET b1 == data[f.p + 1]
        p == f.p + 1
    IN  IF b1 = QOI_OP_RGB
        THEN [f EXCEPT !.r = data[p + 1], !.g = data[p + 2], !.b = data[p + 3],
                       !.a = 255, !.p = p + 3]
        ELSE IF b1 = QOI_OP_RGBA
        THEN [f EXCEPT !.r = data[p + 1], !.g = data[p + 2], !.b = data[p + 3],
                       !.a = data[p + 4], !.p = p + 4]
        ELSE IF Mask2(b1) = QOI_OP_INDEX
        THEN LET px == f.index[(b1 % 64) + 1]
             IN  [f EXCEPT !.r = px[1], !.g = px[2], !.b = px[3], !.a = px[4], !.p = p]
        ELSE IF Mask2(b1) = QOI_OP_DIFF
        THEN [f EXCEPT !.r = (f.r + ((b1 \div 16) % 4) - 2) % 256,
                       !.g = (f.g + ((b1 \div 4) % 4) - 2) % 256,
                       !.b = (f.b + (b1 % 4) - 2) % 256,
                       !.p = p]
        ELSE IF Mask2(b1) = QOI_OP_LUMA
        THEN LET b2 == data[p + 1]
                 vg == (b1 % 64) - 32
             IN  [f EXCEPT !.r = (f.r + vg - 8 + ((b2 \div 16) % 16)) % 256,
                           !.g = (f.g + vg) % 256,
                           !.b = (f.b + vg - 8 + (b2 % 16)) % 256,
                           !.p = p + 1]
        ELSE [f EXCEPT !.run = b1 % 64, !.p = p]

\* DecOpcode with the run set to the 6 bits plus one
DecOpcodeRunPlusOne(f, data) ==
    LET b1 == data[f.p + 1]
        p == f.p + 1
    IN  IF b1 = QOI_OP_RGB
        THEN [f EXCEPT !.r = data[p + 1], !.g = data[p + 2], !.b = data[p + 3],
                       !.p = p + 3]
        ELSE IF b1 = QOI_OP_RGBA
        THEN [f EXCEPT !.r = data[p + 1], !.g = data[p + 2], !.b = data[p + 3],
                       !.a = data[p + 4], !.p = p + 4]
        ELSE IF Mask2(b1) = QOI_OP_INDEX
        THEN LET px == f.index[(b1 % 64) + 1]
             IN  [f EXCEPT !.r = px[1], !.g = px[2], !.b = px[3], !.a = px[4], !.p = p]
        ELSE IF Mask2(b1) = QOI_OP_DIFF
        THEN [f EXCEPT !.r = (f.r + ((b1 \div 16) % 4) - 2) % 256,
                       !.g = (f.g + ((b1 \div 4) % 4) - 2) % 256,
                       !.b = (f.b + (b1 % 4) - 2) % 256,
                       !.p = p]
        ELSE IF Mask2(b1) = QOI_OP_LUMA
        THEN LET b2 == data[p + 1]
                 vg == (b1 % 64) - 32
             IN  [f EXCEPT !.r = (f.r + vg - 8 + ((b2 \div 16) % 16)) % 256,
                           !.g = (f.g + vg) % 256,
                           !.b = (f.b + vg - 8 + (b2 % 16)) % 256,
                           !.p = p + 1]
        ELSE [f EXCEPT !.run = (b1 % 64) + 1, !.p = p]

\* the opcode read at f.p applied to the colours, the cursor and the run
DecOpcode(f, data) ==
    LET b1 == data[f.p + 1]
        p == f.p + 1
    IN  IF b1 = QOI_OP_RGB
        THEN [f EXCEPT !.r = data[p + 1], !.g = data[p + 2], !.b = data[p + 3],
                       !.p = p + 3]
        ELSE IF b1 = QOI_OP_RGBA
        THEN [f EXCEPT !.r = data[p + 1], !.g = data[p + 2], !.b = data[p + 3],
                       !.a = data[p + 4], !.p = p + 4]
        ELSE IF Mask2(b1) = QOI_OP_INDEX
        THEN LET px == f.index[(b1 % 64) + 1]
             IN  [f EXCEPT !.r = px[1], !.g = px[2], !.b = px[3], !.a = px[4], !.p = p]
        ELSE IF Mask2(b1) = QOI_OP_DIFF
        THEN [f EXCEPT !.r = (f.r + ((b1 \div 16) % 4) - 2) % 256,
                       !.g = (f.g + ((b1 \div 4) % 4) - 2) % 256,
                       !.b = (f.b + (b1 % 4) - 2) % 256,
                       !.p = p]
        ELSE IF Mask2(b1) = QOI_OP_LUMA
        THEN LET b2 == data[p + 1]
                 vg == (b1 % 64) - 32
             IN  [f EXCEPT !.r = (f.r + vg - 8 + ((b2 \div 16) % 16)) % 256,
                           !.g = (f.g + vg) % 256,
                           !.b = (f.b + vg - 8 + (b2 % 16)) % 256,
                           !.p = p + 1]
        ELSE [f EXCEPT !.run = b1 % 64, !.p = p]

\* the part of a loop iteration before the pixel is written (the two loops
\* of decode hold the same text): a run is counted down, or an opcode is read
\* and the current pixel stored in the index, or neither
DecIter(f, data) ==
    IF f.run > 0
    THEN [f EXCEPT !.run = @ - 1]
    ELSE IF f.p < f.data_len
    THEN LET o == DecOpcode(f, data)
             idx_pos == Hash(o.r, o.g, o.b, o.a)
         IN  [o EXCEPT !.index = [@ EXCEPT ![idx_pos + 1] = PxInt(o.r, o.g, o.b, o.a)]]
    ELSE f

\* the pixel is written, 4 bytes
DecEmit4(f) ==
    [f EXCEPT !.output = [@ EXCEPT ![f.out_pos + 1] = f.r, ![f.out_pos + 2] = f.g,
                                   ![f.out_pos + 3] = f.b, ![f.out_pos + 4] = f.a],
              !.out_pos = @ + 4,
              !.n = @ + 1]

\* the pixel is written, 3 bytes
DecEmit3(f) ==
    [f EXCEPT !.output = [@ EXCEPT ![f.out_pos + 1] = f.r, ![f.out_pos + 2] = f.g,
                                   ![f.out_pos + 3] = f.b],
              !.out_pos = @ + 3,
              !.n = @ + 1]

\* decode is called on data with the channels argument
Decode1Enter(data, channels) ==
    /\ dargs' = [module |-> "qoi", data |-> data, channels |-> channels]
    /\ IF DecodeRejects(data)
       THEN /\ pc' = "D1_returned"
            /\ dec' = NoFrame
            /\ dres' = DecodeFail
       ELSE /\ pc' = "D1_loop"
            /\ dec' = DecFrame(data, channels)
            /\ dres' = NoResult
    /\ UNCHANGED <<args, enc, eres, encoder_index, decoder_index, calls>>

\* for _ in range(px_count), out_channels == 4
Decode1Loop4 ==
    /\ pc = "D1_loop" /\ dec.out_channels = 4 /\ dec.n < dec.px_count
    /\ dec' = DecEmit4(DecIter(dec, dargs.data))
    /\ UNCHANGED <<pc, args, enc, eres, dargs, dres, encoder_index, decoder_index, calls>>

\* for _ in range(px_count), any other out_channels; an IndexError is raised
\* when the 3 bytes do not fit the output
Decode1Loop3 ==
    /\ pc = "D1_loop" /\ dec.out_channels # 4 /\ dec.n < dec.px_count
    /\ IF dec.out_pos + 3 > Len(dec.output)
       THEN pc' = "D1_raised" /\ dec' = NoFrame
       ELSE pc' = pc /\ dec' = DecEmit3(DecIter(dec, dargs.data))
    /\ UNCHANGED <<args, enc, eres, dargs, dres, encoder_index, decoder_index, calls>>

\* Decode1Return with out_channels returned for desc_channels
Decode1ReturnOutChannels ==
    /\ pc = "D1_loop" /\ dec.n >= dec.px_count
    /\ pc' = "D1_returned"
    /\ dres' = <<Some(dec.output), dec.width, dec.height, dec.out_channels, dec.colorspace>>
    /\ UNCHANGED <<args, enc, eres, dargs, dec, encoder_index, decoder_index, calls>>

\* return bytes(output), width, height, desc_channels, colorspace
Decode1Return ==
    /\ pc = "D1_loop" /\ dec.n >= dec.px_count
    /\ pc' = "D1_returned"
    /\ dres' = <<Some(dec.output), dec.width, dec.height, dec.desc_channels, dec.colorspace>>
    /\ UNCHANGED <<args, enc, eres, dargs, dec, encoder_index, decoder_index, calls>>

---------------------------------------------------------------------------
(* src/qoi2.py, QOIEncoder *)

\* 0xFF000000
OpaqueBlack2 == <<255, 0, 0, 0>>

\* array.array('I', [0xFF000000] * 64), and the reset loop of encode and decode
Index2Reset == [s \in 1..64 |-> OpaqueBlack2]

\* (a << 24) | (r << 16) | (g << 8) | b
Px2(r, g, b, a) == <<a, r, g, b>>

\* (r * 3 + g * 5 + b * 7 + a * 11) & 63
Hash2(r, g, b, a) == (r * 3 + g * 5 + b * 7 + a * 11) % 64

\* the validation of encode
Encode2Rejects(width, height, channels, colorspace) ==
    \/ width = 0
    \/ height = 0
    \/ channels < 3
    \/ channels > 4
    \/ colorspace > 1
    \/ height >= QOI_PIXELS_MAX \div width

\* the header written field by field
Header2(width, height, channels, colorspace) ==
    QOI_MAGIC \o PackU32(width) \o PackU32(height) \o <<channels>> \o <<colorspace>>

\* the bytes of a pixel that is neither run nor index
Op2(r, g, b, a, px_prev) ==
    LET px_prev_a == px_prev[1]
        px_prev_r == px_prev[2]
        px_prev_g == px_prev[3]
        px_prev_b == px_prev[4]
    IN  IF a = px_prev_a
        THEN LET vr == r - px_prev_r
                 vg == g - px_prev_g
                 vb == b - px_prev_b
                 vg_r == vr - vg
                 vg_b == vb - vg
             IN  IF -2 <= vr /\ vr <= 1 /\ -2 <= vg /\ vg <= 1 /\ -2 <= vb /\ vb <= 1
                 THEN <<QOI_OP_DIFF + (vr + 2) * 16 + (vg + 2) * 4 + (vb + 2)>>
                 ELSE IF -32 <= vg /\ vg <= 31 /\ -8 <= vg_r /\ vg_r <= 7
                         /\ -8 <= vg_b /\ vg_b <= 7
                      THEN <<QOI_OP_LUMA + (vg + 32), (vg_r + 8) * 16 + (vg_b + 8)>>
                      ELSE <<QOI_OP_RGB, r, g, b>>
        ELSE <<QOI_OP_RGBA, r, g, b, a>>

\* the locals of encode when its loop is entered; output is the written part
\* output[:out_pos] of the pre-allocated buffer of max_size bytes
Enc2Frame(width, height, channels, colorspace) ==
    [live |-> TRUE,
     output |-> Header2(width, height, channels, colorspace),
     max_size |-> QOI_HEADER_SIZE + width * height * 5 + 8,
     px_prev |-> OpaqueBlack2,
     run |-> 0,
     px_pos |-> 0,
     px_end |-> width * height * channels]

\* one iteration of the loop of encode: the locals and the index after it
Enc2Iter(f, index, pixels, channels) ==
    LET r == pixels[f.px_pos + 1]
        g == pixels[f.px_pos + 2]
        b == pixels[f.px_pos + 3]
        a == IF channels = 4 THEN pixels[f.px_pos + 4] ELSE 255
        px == Px2(r, g, b, a)
        hash_val == Hash2(r, g, b, a)
        flushed == IF f.run > 0
                   THEN f.output \o <<QOI_OP_RUN + (f.run - 1)>>
                   ELSE f.output
    IN  IF px = f.px_prev
        THEN IF f.run + 1 = 62 \/ f.px_pos + channels >= f.px_end
             THEN <<[f EXCEPT !.output = @ \o <<QOI_OP_RUN + (f.run + 1 - 1)>>,
                              !.run = 0, !.px_pos = @ + channels], index>>
             ELSE <<[f EXCEPT !.run = @ + 1, !.px_pos = @ + channels], index>>
        ELSE IF index[hash_val + 1] = px
             THEN <<[f EXCEPT !.output = flushed \o <<QOI_OP_INDEX + hash_val>>,
                              !.run = 0, !.px_prev = px, !.px_pos = @ + channels],
                    index>>
             ELSE <<[f EXCEPT !.output = flushed \o Op2(r, g, b, a, f.px_prev),
                              !.run = 0, !.px_prev = px, !.px_pos = @ + channels],
                    [index EXCEPT ![hash_val + 1] = px]>>

\* Encode2Enter without the reset of self._index
Encode2EnterNoReset(pixels, width, height, channels, colorspace) ==
    /\ args' = [module |-> "qoi2", pixels |-> pixels, width |-> width, height |-> height,
                channels |-> channels, colorspace |-> colorspace]
    /\ calls' = calls + 1
    /\ dargs' = NoFrame /\ dec' = NoFrame /\ dres' = NoResult
    /\ UNCHANGED <<decoder_index, encoder_index>>
    /\ IF Encode2Rejects(width, height, channels, colorspace)
       THEN /\ pc' = "E2_returned"
            /\ enc' = NoFrame
            /\ eres' = <<<<>>, 0>>
       ELSE /\ pc' = "E2_loop"
            /\ enc' = Enc2Frame(width, height, channels, colorspace)
            /\ eres' = NoResult

\* encode is called: validation, header, the index reset, locals
Encode2Enter(pixels, width, height, channels, colorspace) ==
    /\ args' = [module |-> "qoi2", pixels |-> pixels, width |-> width, height |-> height,
                channels |-> channels, colorspace |-> colorspace]
    /\ calls' = calls + 1
    /\ dargs' = NoFrame /\ dec' = NoFrame /\ dres' = NoResult
    /\ UNCHANGED decoder_index
    /\ IF Encode2Rejects(width, height, channels, colorspace)
       THEN /\ pc' = "E2_returned"
            /\ enc' = NoFrame
            /\ eres' = <<<<>>, 0>>
            /\ UNCHANGED encoder_index
       ELSE /\ pc' = "E2_loop"
            /\ enc' = Enc2Frame(width, height, channels, colorspace)
            /\ eres' = NoResult
            /\ encoder_index' = Index2Reset

\* while px_pos < px_end; an IndexError is raised when a pixel byte past the
\* end of pixels is read or a byte is written at or past max_size
Encode2Loop ==
    /\ pc = "E2_loop" /\ enc.px_pos < enc.px_end
    /\ IF enc.px_pos + args.channels > Len(args.pixels)
       THEN pc' = "E2_raised" /\ enc' = NoFrame /\ UNCHANGED encoder_index
       ELSE LET next == Enc2Iter(enc, encoder_index, args.pixels, args.channels)
            IN  /\ encoder_index' = next[2]
                /\ IF Len(next[1].output) > enc.max_size
                   THEN pc' = "E2_raised" /\ enc' = NoFrame
                   ELSE pc' = "E2_loop" /\ enc' = next[1]
    /\ UNCHANGED <<args, eres, dargs, dec, dres, decoder_index, calls>>

\* the loop is over: the end marker is appended and the written part returned
Encode2Return ==
    /\ pc = "E2_loop" /\ enc.px_pos >= enc.px_end
    /\ pc' = "E2_returned"
    /\ eres' = <<enc.output \o QOI_PADDING, Len(enc.output) + 8>>
    /\ UNCHANGED <<args, enc, dargs, dec, dres, encoder_index, decoder_index, calls>>

---------------------------------------------------------------------------
(* src/qoi2.py, QOIDecoder *)

\* the length, magic and header checks of decode
Decode2Rejects(data) ==
    \/ Len(data) < QOI_HEADER_SIZE + 8
    \/ SubSeq(data, 1, 4) # QOI_MAGIC
    \/ UnpackU32(data, 4) = 0
    \/ UnpackU32(data, 8) = 0
    \/ data[13] < 3
    \/ data[13] > 4
    \/ data[14] > 1
    \/ UnpackU32(data, 8) >= QOI_PIXELS_MAX \div UnpackU32(data, 4)

\* the locals of decode when its loop is entered; n counts the iterations made
Dec2Frame(data, channels_arg) ==
    LET width == UnpackU32(data, 4)
        height == UnpackU32(data, 8)
        desc_channels == data[13]
        colorspace == data[14]
        channels == IF channels_arg = 0 THEN desc_channels ELSE channels_arg
    IN  [live |-> TRUE,
         width |-> width, height |-> height,
         desc_channels |-> desc_channels, colorspace |-> colorspace,
         channels |-> channels,
         output |-> Zeros(width * height * channels),
         out_pos |-> 0,
         px |-> OpaqueBlack2,
         run |-> 0,
         chunks_len |-> Len(data) - 8,
         p |-> QOI_HEADER_SIZE,
         px_count |-> width * height,
         n |-> 0]

\* the opcode read at f.p applied to the current pixel, the cursor and the run
Dec2Opcode(f, index, data) ==
    LET b1 == data[f.p + 1]
        p == f.p + 1
        a == f.px[1]
        r == f.px[2]
        g == f.px[3]
        b == f.px[4]
    IN  IF b1 = QOI_OP_RGB
        THEN [f EXCEPT !.px = Px2(data[p + 1], data[p + 2], data[p + 3], a), !.p = p + 3]
        ELSE IF b1 = QOI_OP_RGBA
        THEN [f EXCEPT !.px = Px2(data[p + 1], data[p + 2], data[p + 3], data[p + 4]),
                       !.p = p + 4]
        ELSE IF Mask2(b1) = QOI_OP_INDEX
        THEN [f EXCEPT !.px = index[(b1 % 64) + 1], !.p = p]
        ELSE IF Mask2(b1) = QOI_OP_DIFF
        THEN [f EXCEPT !.px = Px2((r + ((b1 \div 16) % 4) - 2) % 256,
                                  (g + ((b1 \div 4) % 4) - 2) % 256,
                                  (b + (b1 % 4) - 2) % 256,
                                  a),
                       !.p = p]
        ELSE IF Mask2(b1) = QOI_OP_LUMA
        THEN LET b2 == data[p + 1]
                 vg == (b1 % 64) - 32
             IN  [f EXCEPT !.px = Px2((r + vg - 8 + ((b2 \div 16) % 16)) % 256,
                                      (g + vg) % 256,
                                      (b + vg - 8 + (b2 % 16)) % 256,
                                      a),
                           !.p = p + 1]
        ELSE [f EXCEPT !.run = b1 % 64, !.p = p]

\* Dec2Iter with the hash taken from the pixel before the opcode
Dec2IterStaleHash(f, index, data) ==
    IF f.run > 0
    THEN <<[f EXCEPT !.run = @ - 1], index>>
    ELSE IF f.p < f.chunks_len
    THEN LET o == Dec2Opcode(f, index, data)
             r == f.px[2]
             g == f.px[3]
             b == f.px[4]
             a == f.px[1]
             hash_val == Hash2(r, g, b, a)
         IN  <<o, [index EXCEPT ![hash_val + 1] = o.px]>>
    ELSE <<f, index>>

\* the part of a loop iteration before the pixel is written: the locals and
\* the index after it
Dec2Iter(f, index, data) ==
    IF f.run > 0
    THEN <<[f EXCEPT !.run = @ - 1], index>>
    ELSE IF f.p < f.chunks_len
    THEN LET o == Dec2Opcode(f, index, data)
             r == o.px[2]
             g == o.px[3]
             b == o.px[4]
             a == o.px[1]
             hash_val == Hash2(r, g, b, a)
         IN  <<o, [index EXCEPT ![hash_val + 1] = o.px]>>
    ELSE <<f, index>>

\* Dec2Emit reading the word as (r << 24) | (g << 16) | (b << 8) | a
Dec2EmitOtherPacking(f) ==
    IF f.channels = 4
    THEN [f EXCEPT !.output = [@ EXCEPT ![f.out_pos + 1] = f.px[1],
                                        ![f.out_pos + 2] = f.px[2],
                                        ![f.out_pos + 3] = f.px[3],
                                        ![f.out_pos + 4] = f.px[4]],
                   !.out_pos = @ + 4,
                   !.n = @ + 1]
    ELSE [f EXCEPT !.output = [@ EXCEPT ![f.out_pos + 1] = f.px[1],
                                        ![f.out_pos + 2] = f.px[2],
                                        ![f.out_pos + 3] = f.px[3]],
                   !.out_pos = @ + 3,
                   !.n = @ + 1]

\* the pixel is unpacked to the output
Dec2Emit(f) ==
    IF f.channels = 4
    THEN [f EXCEPT !.output = [@ EXCEPT ![f.out_pos + 1] = f.px[2],
                                        ![f.out_pos + 2] = f.px[3],
                                        ![f.out_pos + 3] = f.px[4],
                                        ![f.out_pos + 4] = f.px[1]],
                   !.out_pos = @ + 4,
                   !.n = @ + 1]
    ELSE [f EXCEPT !.output = [@ EXCEPT ![f.out_pos + 1] = f.px[2],
                                        ![f.out_pos + 2] = f.px[3],
                                        ![f.out_pos + 3] = f.px[4]],
                   !.out_pos = @ + 3,
                   !.n = @ + 1]

\* decode is called on data with the channels argument
Decode2Enter(data, channels) ==
    /\ dargs' = [module |-> "qoi2", data |-> data, channels |-> channels]
    /\ IF Decode2Rejects(data)
       THEN /\ pc' = "D2_returned"
            /\ dec' = NoFrame
            /\ dres' = DecodeFail
            /\ UNCHANGED decoder_index
       ELSE /\ pc' = "D2_loop"
            /\ dec' = Dec2Frame(data, channels)
            /\ dres' = NoResult
            /\ decoder_index' = Index2Reset
    /\ UNCHANGED <<args, enc, eres, encoder_index, calls>>

\* for _ in range(px_count); an IndexError is raised when the pixel does not
\* fit the output
Decode2Loop ==
    /\ pc = "D2_loop" /\ dec.n < dec.px_count
    /\ LET next == Dec2Iter(dec, decoder_index, dargs.data)
       IN  /\ decoder_index' = next[2]
           /\ IF dec.out_pos + (IF dec.channels = 4 THEN 4 ELSE 3) > Len(dec.output)
              THEN pc' = "D2_raised" /\ dec' = NoFrame
              ELSE pc' = pc /\ dec' = Dec2Emit(next[1])
    /\ UNCHANGED <<args, enc, eres, dargs, dres, encoder_index, calls>>

\* return bytes(output), width, height, desc_channels, colorspace
Decode2Return ==
    /\ pc = "D2_loop" /\ dec.n >= dec.px_count
    /\ pc' = "D2_returned"
    /\ dres' = <<Some(dec.output), dec.width, dec.height, dec.desc_channels, dec.colorspace>>
    /\ UNCHANGED <<args, enc, eres, dargs, dec, encoder_index, decoder_index, calls>>

---------------------------------------------------------------------------
(* The callers: which images are encoded and which streams are decoded. *)

\* RGBA pixels that between them take every opcode: the initial previous
\* pixel, the word 255 << 24 read as a pixel, the zero word, a DIFF and a
\* LUMA step from black that share hash 4, and an RGB step
Palette4 ==
    {<<0, 0, 0, 255>>, <<255, 0, 0, 0>>, <<0, 0, 0, 0>>,
     <<1, 1, 1, 255>>, <<5, 0, 0, 255>>, <<255, 0, 0, 255>>}

\* RGB pixels
Palette3 == {<<0, 0, 0>>, <<1, 1, 1>>, <<5, 0, 0>>, <<255, 0, 0>>, <<254, 255, 1>>}

\* the images of n pixels over a palette, as pixel buffers
Buffers(palette, n) == {Flatten(ps) : ps \in [1..n -> palette]}

\* the widths of an image of n pixels
Widths(n) == {w \in 1..n : n % w = 0}

\* src/qoi.py: its QOIEncoder and QOIDecoder objects hold nothing, and no
\* object of src/qoi2.py exists
Init ==
    /\ pc = "idle"
    /\ args = NoFrame /\ enc = NoFrame /\ eres = NoResult
    /\ dargs = NoFrame /\ dec = NoFrame /\ dres = NoResult
    /\ encoder_index = <<>>
    /\ decoder_index = <<>>
    /\ calls = 0

\* src/qoi2.py: a QOIEncoder and a QOIDecoder have been constructed
Init2 ==
    /\ pc = "idle"
    /\ args = NoFrame /\ enc = NoFrame /\ eres = NoResult
    /\ dargs = NoFrame /\ dec = NoFrame /\ dres = NoResult
    /\ encoder_index = Index2Reset
    /\ decoder_index = Index2Reset
    /\ calls = 0

\* QOIEncoder().encode of src/qoi.py on an RGBA image
EncodeRGBA1 ==
    /\ pc = "idle"
    /\ \E n \in 1..MaxPixels : \E pixels \in Buffers(Palette4, n) :
       \E width \in Widths(n) : \E colorspace \in {0, 1} :
          Encode1Enter(pixels, width, n \div width, 4, colorspace)

\* QOIEncoder().encode of src/qoi.py on an RGB image
EncodeRGB1 ==
    /\ pc = "idle"
    /\ \E n \in 1..MaxPixels : \E pixels \in Buffers(Palette3, n) :
       \E width \in Widths(n) : \E colorspace \in {0, 1} :
          Encode1Enter(pixels, width, n \div width, 3, colorspace)

\* QOIDecoder().decode of src/qoi.py on the stream just encoded
DecodeEncoded1 ==
    /\ pc \in {"E1_returned", "E2_returned"} /\ eres[2] # 0
    /\ \E channels \in {0, 3, 4} : Decode1Enter(eres[1], channels)

Next ==
    \/ EncodeRGBA1
    \/ EncodeRGB1
    \/ Encode1Loop4
    \/ Encode1Loop3
    \/ Encode1Return
    \/ DecodeEncoded1
    \/ Decode1Loop4
    \/ Decode1Loop3
    \/ Decode1Return

\* src/qoi.py: an image is encoded and the stream decoded
Spec == Init /\ [][Next]_vars

\* QOIEncoder.encode of src/qoi2.py on an RGBA image
EncodeRGBA2 ==
    /\ pc = "idle"
    /\ \E n \in 1..MaxPixels : \E pixels \in Buffers(Palette4, n) :
       \E width \in Widths(n) : \E colorspace \in {0, 1} :
          Encode2Enter(pixels, width, n \div width, 4, colorspace)

\* QOIEncoder.encode of src/qoi2.py on an RGB image
EncodeRGB2 ==
    /\ pc = "idle"
    /\ \E n \in 1..MaxPixels : \E pixels \in Buffers(Palette3, n) :
       \E width \in Widths(n) : \E colorspace \in {0, 1} :
          Encode2Enter(pixels, width, n \div width, 3, colorspace)

\* QOIDecoder.decode of src/qoi2.py on the stream just encoded
DecodeEncoded2 ==
    /\ pc = "E2_returned" /\ eres[2] # 0
    /\ \E channels \in {0, 3, 4} : Decode2Enter(eres[1], channels)

Next2 ==
    \/ EncodeRGBA2
    \/ EncodeRGB2
    \/ Encode2Loop
    \/ Encode2Return
    \/ DecodeEncoded2
    \/ Decode2Loop
    \/ Decode2Return
    \/ DecodeEncoded1
    \/ Decode1Loop4
    \/ Decode1Loop3
    \/ Decode1Return

\* src/qoi2.py: an image is encoded and the stream decoded, by the decoder of
\* src/qoi2.py or by the decoder of src/qoi.py
Spec2 == Init2 /\ [][Next2]_vars

\* three opaque pixels, two of them with the same hash
PaletteReuse == {<<0, 0, 0, 255>>, <<1, 1, 1, 255>>, <<5, 0, 0, 255>>}

\* the QOIEncoder object of src/qoi2.py is used again
EncodeAgain2 ==
    /\ pc \in {"idle", "E2_returned", "D2_returned"}
    /\ calls < MaxCalls
    /\ \E n \in 1..MaxPixels : \E pixels \in Buffers(PaletteReuse, n) :
          Encode2Enter(pixels, n, 1, 4, 0)

\* the QOIDecoder object of src/qoi2.py is used again
DecodeAgain2 ==
    /\ pc = "E2_returned" /\ eres[2] # 0
    /\ \E channels \in {0, 3} : Decode2Enter(eres[1], channels)

NextReuse ==
    \/ EncodeAgain2
    \/ Encode2Loop
    \/ Encode2Return
    \/ DecodeAgain2
    \/ Decode2Loop
    \/ Decode2Return

\* src/qoi2.py: one QOIEncoder and one QOIDecoder serve several calls
SpecReuse == Init2 /\ [][NextReuse]_vars

\* the colours before and after a stretch of equal pixels
RunPalette == {<<0, 0, 0, 255>>, <<1, 1, 1, 255>>, <<255, 0, 0, 0>>}

\* images made of at most one pixel, then k pixels equal to the pixel before
\* them (the initial previous pixel when none is), then at most one other pixel
RunBuffers(k) ==
    {Flatten(pre \o [j \in 1..k |-> IF pre = <<>> THEN <<0, 0, 0, 255>> ELSE pre[1]] \o suf) :
        pre \in {<<>>} \cup {<<c>> : c \in RunPalette},
        suf \in {<<>>} \cup {<<c>> : c \in RunPalette}}

\* encode of src/qoi.py on an image with a long stretch
EncodeRun1 ==
    /\ pc = "idle"
    /\ \E k \in 1..MaxRun : \E pixels \in RunBuffers(k) :
          Encode1Enter(pixels, Len(pixels) \div 4, 1, 4, 0)

\* encode of src/qoi2.py on an image with a long stretch
EncodeRun2 ==
    /\ pc = "idle"
    /\ \E k \in 1..MaxRun : \E pixels \in RunBuffers(k) :
          Encode2Enter(pixels, Len(pixels) \div 4, 1, 4, 0)

NextRun ==
    \/ EncodeRun1
    \/ Encode1Loop4
    \/ Encode1Return
    \/ EncodeRun2
    \/ Encode2Loop
    \/ Encode2Return

\* both encoders on images with stretches of up to MaxRun equal pixels
SpecRun == Init2 /\ [][NextRun]_vars

\* opcodes with their operands: INDEX 0, INDEX 14, DIFF 0, DIFF -2 (wrapping
\* below 0), LUMA 0, RUN of 2, RGB, RGBA, and an RGB byte without operands
Chunks ==
    {<<0>>, <<14>>, <<106>>, <<64>>, <<160, 136>>, <<193>>,
     <<254, 1, 2, 3>>, <<255, 1, 2, 3, 4>>, <<254>>}

\* the bodies of at most n chunks
RECURSIVE Bodies(_)
Bodies(n) ==
    IF n = 0 THEN {<<>>}
    ELSE Bodies(n - 1) \cup {b \o c : b \in Bodies(n - 1), c \in Chunks}

\* header fields of hand-made streams: small valid ones, and ones with a bad
\* magic, a zero width or height, a channels byte of 2 or 5, a colorspace of 2
CraftedHeaders ==
    [magic : {QOI_MAGIC}, width : {1, 2}, height : {1, 2}, channels : {3, 4},
     colorspace : {0}]
    \cup [magic : {<<113, 111, 105, 70>>}, width : {2}, height : {1}, channels : {4},
          colorspace : {0}]
    \cup [magic : {QOI_MAGIC}, width : {0}, height : {1}, channels : {4}, colorspace : {0}]
    \cup [magic : {QOI_MAGIC}, width : {2}, height : {0}, channels : {4}, colorspace : {0}]
    \cup [magic : {QOI_MAGIC}, width : {2}, height : {1}, channels : {2, 5},
          colorspace : {0}]
    \cup [magic : {QOI_MAGIC}, width : {2}, height : {1}, channels : {4}, colorspace : {2}]

\* header, body and end marker; and the 21 bytes of a stream cut short
CraftedStreams ==
    {h.magic \o PackU32(h.width) \o PackU32(h.height) \o <<h.channels, h.colorspace>>
        \o body \o QOI_PADDING : h \in CraftedHeaders, body \in Bodies(MaxBody)}
    \cup {QOI_MAGIC \o <<0, 0, 0, 1, 0, 0, 0, 1, 4, 0, 0, 0, 0, 0, 0, 0, 1>>}

\* decode of src/qoi.py on a hand-made stream
DecodeCrafted1 ==
    /\ pc = "idle"
    /\ \E data \in CraftedStreams : \E channels \in {0, 3, 4} : Decode1Enter(data, channels)

\* decode of src/qoi2.py on a hand-made stream
DecodeCrafted2 ==
    /\ pc = "idle"
    /\ \E data \in CraftedStreams : \E channels \in {0, 3, 4} : Decode2Enter(data, channels)

NextDec ==
    \/ DecodeCrafted1
    \/ Decode1Loop4
    \/ Decode1Loop3
    \/ Decode1Return
    \/ DecodeCrafted2
    \/ Decode2Loop
    \/ Decode2Return

\* both decoders on hand-made streams
SpecDec == Init2 /\ [][NextDec]_vars

\* width and height of encode calls: zero, small, and either side of the
\* size limit
ArgSizes ==
    {<<0, 1>>, <<1, 0>>, <<0, 0>>, <<1, 1>>, <<1, 2>>, <<2, 1>>, <<1, 3>>, <<3, 1>>,
     <<2, 2>>, <<1, 399999999>>, <<1, 400000000>>, <<1, 400000001>>,
     <<2, 199999999>>, <<2, 200000000>>, <<3, 133333333>>, <<3, 133333334>>,
     <<20000, 19999>>, <<20000, 20000>>, <<399999999, 1>>, <<400000000, 1>>}

\* two RGBA and two RGB pixels
PaletteArgs4 == {<<0, 0, 0, 255>>, <<9, 8, 7, 6>>}

PaletteArgs3 == {<<1, 1, 1>>, <<9, 8, 7>>}

\* pixel buffers of 0, 3, 4, 6, 8, ... bytes, whatever the size arguments say
ArgBuffers ==
    {<<>>} \cup UNION {Buffers(PaletteArgs4, n) \cup Buffers(PaletteArgs3, n) :
                          n \in 1..MaxPixels}

\* encode of src/qoi.py called with any arguments
EncodeAnyArgs1 ==
    /\ pc = "idle"
    /\ \E size \in ArgSizes : \E channels \in {0, 2, 3, 4, 5} :
       \E colorspace \in {0, 1, 2} : \E pixels \in ArgBuffers :
          Encode1Enter(pixels, size[1], size[2], channels, colorspace)

NextArgs ==
    \/ EncodeAnyArgs1
    \/ Encode1Loop4
    \/ Encode1Loop3
    \/ Encode1Return

\* encode of src/qoi.py on valid and invalid arguments
SpecArgs == Init /\ [][NextArgs]_vars

---------------------------------------------------------------------------
(* Properties of src/qoi.py, under Spec. *)

\* an RGB buffer with an alpha byte 255 inserted after every pixel
RECURSIVE WithAlpha(_)
WithAlpha(rgb) ==
    IF Len(rgb) < 3 THEN <<>>
    ELSE <<rgb[1], rgb[2], rgb[3], 255>> \o WithAlpha(SubSeq(rgb, 4, Len(rgb)))

\* the pixel that encode reads at byte offset i, as (r, g, b, a)
PixelAt(pixels, channels, i) ==
    <<pixels[i + 1], pixels[i + 2], pixels[i + 3],
      IF channels = 4 THEN pixels[i + 4] ELSE 255>>

\* the pixel before the one at byte offset i: (0, 0, 0, 255) before the first
PreviousAt(pixels, channels, i) ==
    IF i = 0 THEN <<0, 0, 0, 255>> ELSE PixelAt(pixels, channels, i - channels)

\* C1: decoding what encode made of an RGBA buffer P returns exactly
\* (P, width, height, 4, colorspace).
C1_RoundTripRGBA ==
    (pc = "D1_returned" /\ args.module = "qoi" /\ args.channels = 4
        /\ dargs.channels \in {0, 4})
    => dres = <<Some(args.pixels), args.width, args.height, 4, args.colorspace>>

\* C2: decoding what encode made of an RGB buffer P returns P with channels=3
\* and P with an alpha byte 255 after every pixel with channels=4.
C2_RoundTripRGB ==
    (pc = "D1_returned" /\ args.module = "qoi" /\ args.channels = 3)
    => /\ dargs.channels = 3 => dres[1] = Some(args.pixels)
       /\ dargs.channels = 4 => dres[1] = Some(WithAlpha(args.pixels))

\* an RGB image of three different pixels (a LUMA and an RGB step) decoded to RGBA
C2_Witness ==
    /\ pc = "D1_returned" /\ args.module = "qoi" /\ args.channels = 3
    /\ dargs.channels = 4
    /\ args.pixels = <<5, 0, 0, 255, 0, 0, 1, 1, 1>>
    /\ dres[1] = Some(<<5, 0, 0, 255, 255, 0, 0, 255, 1, 1, 1, 255>>)

\* C5: a pixel equal to the previous pixel (the initial (0, 0, 0, 255) for the
\* first pixel) is counted into a run: the iteration writes nothing or one RUN
\* byte; and the 1x1 image 00 00 00 FF encodes to header, C0, end marker.
C5_RunFromFirstPixel ==
    /\ [][(pc = "E1_loop" /\ pc' = "E1_loop" /\ args.channels = 4
             /\ enc.i < enc.total_bytes /\ enc'.i = enc.i + 4
             /\ PixelAt(args.pixels, 4, enc.i) = PreviousAt(args.pixels, 4, enc.i))
          => \/ enc'.output = enc.output
             \/ \E n \in 0..61 : enc'.output = enc.output \o <<QOI_OP_RUN + n>>]_vars
    /\ []((pc = "E1_returned" /\ args.pixels = <<0, 0, 0, 255>> /\ args.channels = 4
             /\ args.width = 1 /\ args.height = 1 /\ args.colorspace = 0)
          => eres = <<<<113, 111, 105, 102, 0, 0, 0, 1, 0, 0, 0, 1, 4, 0, 192,
                        0, 0, 0, 0, 0, 0, 0, 1>>, 23>>)

\* C7: a successful encode returns bytes that start with 'qoif', width and
\* height as big-endian u32, the channels byte and the colorspace byte, end
\* with 00 00 00 00 00 00 00 01, and a size that is their length.
C7_Framing ==
    (pc = "E1_returned" /\ eres[2] # 0)
    => LET bytes == eres[1]
           size == eres[2]
       IN  /\ size = Len(bytes)
           /\ size >= 22
           /\ SubSeq(bytes, 1, 4) = <<113, 111, 105, 102>>
           /\ bytes[5] * 16777216 + bytes[6] * 65536 + bytes[7] * 256 + bytes[8]
                = args.width
           /\ bytes[9] * 16777216 + bytes[10] * 65536 + bytes[11] * 256 + bytes[12]
                = args.height
           /\ bytes[13] = args.channels
           /\ bytes[14] = args.colorspace
           /\ SubSeq(bytes, size - 7, size) = <<0, 0, 0, 0, 0, 0, 0, 1>>

\* a 3x1 RGB image in the linear colorspace has been encoded
C7_Witness ==
    /\ pc = "E1_returned" /\ eres[2] # 0
    /\ args.width = 3 /\ args.height = 1 /\ args.channels = 3 /\ args.colorspace = 1
    /\ SubSeq(eres[1], 1, 14) = <<113, 111, 105, 102, 0, 0, 0, 3, 0, 0, 0, 1, 3, 1>>

---------------------------------------------------------------------------
(* Properties of src/qoi2.py, under Spec2 and SpecReuse. *)

\* C3: the decoder of src/qoi2.py applied to what its encoder made of an RGBA
\* buffer P returns exactly (P, width, height, 4, colorspace).
C3_RoundTripRGBA2 ==
    (pc = "D2_returned" /\ args.module = "qoi2" /\ args.channels = 4
        /\ dargs.channels \in {0, 4})
    => dres = <<Some(args.pixels), args.width, args.height, 4, args.colorspace>>

\* opaque black after another pixel is sent as INDEX 53, a slot that only the
\* 0xFF000000 initialisation fills, and comes back
C3_Witness ==
    /\ pc = "D2_returned" /\ args.module = "qoi2" /\ dargs.channels = 0
    /\ args.pixels = <<1, 1, 1, 255, 0, 0, 0, 255, 255, 0, 0, 0>>
    /\ SubSeq(eres[1], 15, 16) = <<QOI_OP_DIFF + 63, QOI_OP_INDEX + 53>>
    /\ dres[1] = Some(args.pixels)

\* C4: the stream that encode of src/qoi2.py makes of an RGBA buffer P is
\* decoded by decode of src/qoi.py back to exactly P.
C4_Interchangeable ==
    (pc = "D1_returned" /\ args.module = "qoi2" /\ args.channels = 4
        /\ dargs.module = "qoi" /\ dargs.channels \in {0, 4})
    => dres = <<Some(args.pixels), args.width, args.height, 4, args.colorspace>>

\* the loop of encode of src/qoi2.py run to its end
RECURSIVE RunEnc2(_, _, _, _)
RunEnc2(f, index, pixels, channels) ==
    IF f.px_pos >= f.px_end THEN f
    ELSE LET next == Enc2Iter(f, index, pixels, channels)
         IN  RunEnc2(next[1], next[2], pixels, channels)

\* QOIEncoder().encode(...): the call on a freshly constructed object
FreshEncode2(a) ==
    IF Encode2Rejects(a.width, a.height, a.channels, a.colorspace)
    THEN <<<<>>, 0>>
    ELSE LET f == RunEnc2(Enc2Frame(a.width, a.height, a.channels, a.colorspace),
                          Index2Reset, a.pixels, a.channels)
         IN  <<f.output \o QOI_PADDING, Len(f.output) + 8>>

\* the loop of decode of src/qoi2.py run to its end
RECURSIVE RunDec2(_, _, _)
RunDec2(f, index, data) ==
    IF f.n >= f.px_count THEN f
    ELSE LET next == Dec2Iter(f, index, data)
         IN  RunDec2(Dec2Emit(next[1]), next[2], data)

\* QOIDecoder().decode(...): the call on a freshly constructed object
FreshDecode2(a) ==
    IF Decode2Rejects(a.data)
    THEN DecodeFail
    ELSE LET f == RunDec2(Dec2Frame(a.data, a.channels), Index2Reset, a.data)
         IN  <<Some(f.output), f.width, f.height, f.desc_channels, f.colorspace>>

\* C6: whatever calls came before on the same objects, encode and decode of
\* src/qoi2.py return what a freshly constructed object returns for that call.
C6_NoCrossCallState ==
    /\ pc = "E2_returned" => eres = FreshEncode2(args)
    /\ pc = "D2_returned" => dres = FreshDecode2(dargs)

\* a second encode call has returned on an encoder whose first call left a
\* pixel in slot 4, and the stream is INDEX-free as on a fresh object
C6_Witness ==
    /\ pc = "E2_returned" /\ calls = 2
    /\ decoder_index[5] = <<255, 5, 0, 0>>
    /\ args.pixels = <<5, 0, 0, 255>>
    /\ eres[1][15] = QOI_OP_LUMA + 32

---------------------------------------------------------------------------
(* Properties of both encoders, under SpecRun. *)

\* how many pixels up to and including the one at byte offset i are equal to
\* the pixel before them, without a break
StretchLen(pixels, channels, i) ==
    LET breaks == {j \in 0..(i \div channels) :
                      PixelAt(pixels, channels, j * channels)
                         # PreviousAt(pixels, channels, j * channels)}
    IN  IF i < 0 THEN 0
        ELSE IF breaks = {} THEN (i \div channels) + 1
        ELSE (i \div channels) - (CHOOSE j \in breaks : \A m \in breaks : m <= j)

\* the byte offset of the pixel the running encode call is at
EncPos == IF args.module = "qoi" THEN enc.i ELSE enc.px_pos

\* a loop iteration of encode is taken
EncStep ==
    \/ pc = "E1_loop" /\ pc' = "E1_loop" /\ enc'.i = enc.i + args.channels
    \/ pc = "E2_loop" /\ pc' = "E2_loop" /\ enc'.px_pos = enc.px_pos + args.channels

\* C8: the run counter never exceeds 62, and a stretch of k pixels equal to
\* the previous pixel is written as 0xFD at every 62nd pixel of the stretch
\* and, when k mod 62 > 0, 0xC0 | (k mod 62 - 1) at its end (the last pixel of
\* the image, or the first pixel that differs): no other byte is written for
\* the pixels of a stretch.
C8_RunCap ==
    [][EncStep =>
        LET k == StretchLen(args.pixels, args.channels, EncPos)
            before == StretchLen(args.pixels, args.channels, EncPos - args.channels)
            last == EncPos + args.channels = Len(args.pixels)
        IN  /\ enc.run <= 62 /\ enc'.run <= 62
            /\ k > 0 =>
                 enc'.output = enc.output \o
                    (IF k % 62 = 0 THEN <<253>>
                     ELSE IF last THEN <<QOI_OP_RUN + ((k % 62) - 1)>>
                     ELSE <<>>)
            /\ (k = 0 /\ before % 62 > 0) =>
                 /\ Len(enc'.output) > Len(enc.output) + 1
                 /\ enc'.output[Len(enc.output) + 1] = QOI_OP_RUN + ((before % 62) - 1)
                 /\ enc'.output[Len(enc.output) + 2] \notin 192..253
            /\ (k = 0 /\ before % 62 = 0) =>
                 /\ Len(enc'.output) > Len(enc.output)
                 /\ enc'.output[Len(enc.output) + 1] \notin 192..253]_vars

---------------------------------------------------------------------------
(* Properties of the decoders, under SpecDec. *)

\* C9: a decoder that still owes pixels, has run = 0 and has its cursor at
\* len(data) - 8 returns the failure result (None, 0, 0, 0, 0).
C9_TruncatedRejected ==
    [][/\ (pc = "D1_loop" /\ dec.n < dec.px_count /\ dec.run = 0 /\ dec.p >= dec.data_len)
          => (pc' = "D1_returned" /\ dres' = DecodeFail)
       /\ (pc = "D2_loop" /\ dec.n < dec.px_count /\ dec.run = 0 /\ dec.p >= dec.chunks_len)
          => (pc' = "D2_returned" /\ dres' = DecodeFail)]_vars

\* what the header rule of the format rejects
HeaderInvalid(data) ==
    \/ Len(data) < 22
    \/ SubSeq(data, 1, 4) # <<113, 111, 105, 102>>
    \/ UnpackU32(data, 4) = 0
    \/ UnpackU32(data, 8) = 0
    \/ data[13] \notin {3, 4}
    \/ data[14] \notin {0, 1}
    \/ UnpackU32(data, 8) >= 400000000 \div UnpackU32(data, 4)

\* C10: decode of src/qoi.py on an input whose header is invalid returns the
\* failure result: it enters no pixel loop and raises nothing.
C10_HeaderValidation ==
    (pc \in {"D1_loop", "D1_returned", "D1_raised"} /\ HeaderInvalid(dargs.data))
    => (pc = "D1_returned" /\ dres = DecodeFail)

---------------------------------------------------------------------------
(* Properties of the arguments of encode of src/qoi.py, under SpecArgs. *)

\* an encode call of src/qoi.py has been made
Encode1Called == pc \in {"E1_loop", "E1_returned", "E1_raised"}

\* the call returned the failure result (b'', 0)
Encode1Failed == pc = "E1_returned" /\ eres = <<<<>>, 0>>

\* the arguments that the argument rule rejects, the quotient being the
\* integer quotient
ArgsInvalid(a) ==
    \/ a.width = 0
    \/ a.height = 0
    \/ a.channels \notin {3, 4}
    \/ a.colorspace \notin {0, 1}
    \/ a.height >= 400000000 \div a.width

\* the pixel buffer has width * height * channels bytes
BufferFits(a) == Len(a.pixels) = a.width * a.height * a.channels

\* C11: encode called with otherwise valid arguments and a pixel buffer whose
\* length is not width * height * channels returns (b'', 0): it neither enters
\* the pixel loop, nor raises, nor returns a stream.
C11_BufferSizeMismatch ==
    (Encode1Called /\ ~ArgsInvalid(args) /\ ~BufferFits(args)) => Encode1Failed

\* C12: encode returns (b'', 0) when width = 0, height = 0, channels is not 3
\* or 4, colorspace is not 0 or 1, or height >= 400000000 / width, and never
\* fails or raises on other arguments with a buffer of the right size: it
\* returns a non-empty stream.
C12_ArgumentValidation ==
    Encode1Called =>
       /\ ArgsInvalid(args) => Encode1Failed
       /\ (~ArgsInvalid(args) /\ BufferFits(args)) =>
             /\ pc # "E1_raised"
             /\ pc = "E1_returned" => (eres[2] > 0 /\ Len(eres[1]) = eres[2])

\* a 3 x 133333334 image, just over the limit, has been refused
C12_Witness ==
    /\ Encode1Failed
    /\ args.width = 3 /\ args.height = 133333334
    /\ args.channels = 4 /\ args.colorspace = 1

\* C14: on valid arguments with a buffer of the right size, nothing is written
\* outside the 14 + width * height * 5 + 8 bytes allocated (no IndexError, the
\* written part never longer than that), and the returned stream is at most
\* that long.
C14_OutputBound ==
    (Encode1Called /\ ~ArgsInvalid(args) /\ BufferFits(args)) =>
       LET bound == 14 + args.width * args.height * 5 + 8
       IN  /\ pc # "E1_raised"
           /\ pc = "E1_loop" => Len(enc.output) <= bound
           /\ pc = "E1_returned" => (eres[2] <= bound /\ Len(eres[1]) <= bound)

\* a two-pixel image whose pixels both take an RGBA opcode fills the bound
C14_Witness ==
    /\ pc = "E1_returned" /\ BufferFits(args)
    /\ args.pixels = <<9, 8, 7, 6, 0, 0, 0, 255>>
    /\ eres[2] = 14 + 2 * 5 + 8

\* the other arguments are valid and width and height are not zero
SizeOnly(a) ==
    /\ a.width # 0 /\ a.height # 0
    /\ a.channels \in {3, 4} /\ a.colorspace \in {0, 1}

\* C15: with valid channels and colorspace and non-zero width and height,
\* encode refuses the image exactly when width * height exceeds 400000000.
C15_PixelLimit ==
    (Encode1Called /\ SizeOnly(args)) =>
       (Encode1Failed <=> args.width * args.height > 400000000)

\* C15 as amended: encode refuses the image exactly when
\* width * (height + 1) exceeds 400000000.
C15_PixelLimitAmended ==
    (Encode1Called /\ SizeOnly(args)) =>
       (Encode1Failed <=> args.width * (args.height + 1) > 400000000)

\* a 3 x 133333333 image, of 399999999 pixels, has been refused
C15_Witness ==
    /\ Encode1Failed
    /\ args.width = 3 /\ args.height = 133333333
    /\ args.channels = 3 /\ args.colorspace = 0

---------------------------------------------------------------------------
(* Properties of the decoder of src/qoi.py on encoded streams, under Spec. *)

\* C13: decode of a valid stream with force_channels in {0, 3, 4} returns a
\* buffer of width * height * out_channels bytes, out_channels being
\* force_channels when not zero and the header's channels otherwise, and
\* returns the header's channels byte as channels.
C13_OutputShape ==
    /\ pc # "D1_raised"
    /\ pc = "D1_returned" =>
          LET data == dargs.data
              width == UnpackU32(data, 4)
              height == UnpackU32(data, 8)
              out_channels == IF dargs.channels # 0 THEN dargs.channels ELSE data[13]
          IN  /\ dres[1] # None
              /\ Len(dres[1][1]) = width * height * out_channels
              /\ dres[2] = width /\ dres[3] = height
              /\ dres[4] = data[13]

\* a stream of three RGBA pixels decoded with force_channels = 3
C13_Witness ==
    /\ pc = "D1_returned"
    /\ dargs.channels = 3 /\ dargs.data[13] = 4
    /\ args.width * args.height = 3
    /\ Len(dres[1][1]) = 9
    /\ dres[4] = 4

---------------------------------------------------------------------------
(* Properties of the opcode selection of src/qoi.py, under Spec. *)

\* the opcode of pixel p after previous pixel q with the cache as given: INDEX
\* on a hit, else RGBA on another alpha, else DIFF, LUMA or RGB by the signed
\* differences
PriorityOp(p, q, cache) ==
    LET h == (3 * p[1] + 5 * p[2] + 7 * p[3] + 11 * p[4]) % 64
        vr == p[1] - q[1]
        vg == p[2] - q[2]
        vb == p[3] - q[3]
    IN  IF cache[h + 1] = p THEN <<h>>
        ELSE IF p[4] # q[4] THEN <<255, p[1], p[2], p[3], p[4]>>
        ELSE IF vr \in -2..1 /\ vg \in -2..1 /\ vb \in -2..1
        THEN <<64 + (vr + 2) * 16 + (vg + 2) * 4 + (vb + 2)>>
        ELSE IF vg \in -32..31 /\ (vr - vg) \in -8..7 /\ (vb - vg) \in -8..7
        THEN <<128 + (vg + 32), (vr - vg + 8) * 16 + (vb - vg + 8)>>
        ELSE <<254, p[1], p[2], p[3]>>

\* C16: for a pixel that differs from the previous pixel, the iteration of
\* encode writes (after the RUN byte of a pending run, if any) exactly the
\* opcode that the priority INDEX, RGBA, DIFF, LUMA, RGB selects.
C16_OpcodePriority ==
    [][(pc = "E1_loop" /\ pc' = "E1_loop" /\ enc.i < enc.total_bytes
          /\ enc'.i = enc.i + args.channels
          /\ PixelAt(args.pixels, args.channels, enc.i)
                # PreviousAt(args.pixels, args.channels, enc.i))
       => LET expected == PriorityOp(PixelAt(args.pixels, args.channels, enc.i),
                                     PreviousAt(args.pixels, args.channels, enc.i),
                                     enc.index)
              added == SubSeq(enc'.output, Len(enc.output) + 1, Len(enc'.output))
          IN  \/ added = expected
              \/ /\ Len(added) = Len(expected) + 1
                 /\ added[1] \in 192..253
                 /\ Tail(added) = expected]_vars

---------------------------------------------------------------------------
(* Properties of the decoder of src/qoi.py on hand-made streams, under SpecDec. *)

\* an iteration of decode of src/qoi.py that reads an opcode is taken
Dec1ReadsOpcode ==
    /\ pc = "D1_loop" /\ pc' = "D1_loop"
    /\ dec'.n = dec.n + 1
    /\ dec.run = 0 /\ dec.p < dec.data_len

\* C17: processing a RUN opcode (a byte in 0xC0..0xFD) leaves the 64 slots of
\* the decoder's index as they were.
C17_RunKeepsCache ==
    [][(Dec1ReadsOpcode /\ dargs.data[dec.p + 1] \in 192..253)
       => dec'.index = dec.index]_vars

\* C18: every byte an iteration consumes, opcode or operand, lies before the
\* last 8 bytes of the input: the cursor never passes len(data) - 8.
C18_EndMarkerOffLimits ==
    [][(Dec1ReadsOpcode /\ Len(dargs.data) >= 22)
       => dec'.p <= Len(dargs.data) - 8]_vars

---------------------------------------------------------------------------
(* Properties of the index of the encoder of src/qoi.py, under Spec. *)

\* the pixel that slot s holds after the pixels before byte offset i: the last
\* of them whose hash is s, or (0, 0, 0, 0)
LastWithHash(pixels, channels, i, s) ==
    LET seen == {j \in 0..((i \div channels) - 1) :
                    LET p == PixelAt(pixels, channels, j * channels)
                    IN  (3 * p[1] + 5 * p[2] + 7 * p[3] + 11 * p[4]) % 64 = s}
    IN  IF seen = {} THEN <<0, 0, 0, 0>>
        ELSE PixelAt(pixels, channels,
                     (CHOOSE j \in seen : \A m \in seen : m <= j) * channels)

\* C19: after each pixel processed by encode, every slot s of the index holds
\* the most recently processed pixel whose hash is s, or (0, 0, 0, 0) when no
\* processed pixel has that hash.
C19_CacheInvariant ==
    pc = "E1_loop" =>
       \A s \in 0..63 :
          enc.index[s + 1] = LastWithHash(args.pixels, args.channels, enc.i, s)

---------------------------------------------------------------------------
(* Properties of encoder and decoder of src/qoi2.py together, under Spec2. *)

\* the locals and the index of encode of src/qoi2.py after m iterations
RECURSIVE Enc2After(_, _, _, _, _)
Enc2After(f, index, pixels, channels, m) ==
    IF m = 0 THEN <<f, index>>
    ELSE LET next == Enc2Iter(f, index, pixels, channels)
         IN  Enc2After(next[1], next[2], pixels, channels, m - 1)

\* C20: while decode of src/qoi2.py processes a stream made by encode, after
\* each opcode (and during the run an opcode opened) the decoder's px and
\* index equal the encoder's px_prev and index just after it emitted that
\* opcode, that is after the pixels the opcodes so far stand for.
C20_Lockstep ==
    (pc = "D2_loop" /\ dec.n > 0) =>
       LET e == Enc2After(Enc2Frame(args.width, args.height, args.channels,
                                    args.colorspace),
                          Index2Reset, args.pixels, args.channels, dec.n + dec.run)
       IN  /\ dec.px = e[1].px_prev
           /\ decoder_index = e[2]

\* the decoder is inside a run of the pixel (1, 1, 1, 255), whose RUN opcode
\* made it write slot 4 again
C20_Witness ==
    /\ pc = "D2_loop"
    /\ args.pixels = <<1, 1, 1, 255, 1, 1, 1, 255, 1, 1, 1, 255>>
    /\ dec.n = 2 /\ dec.run = 1
    /\ dec.px = <<255, 1, 1, 1>>
    /\ decoder_index[5] = <<255, 1, 1, 1>>

---------------------------------------------------------------------------
(* The alpha of the decoder of src/qoi.py on hand-made streams, under SpecDec. *)

\* an iteration of decode of src/qoi.py is taken
Dec1Step == pc = "D1_loop" /\ pc' = "D1_loop" /\ dec'.n = dec.n + 1

\* C21: an iteration that repeats a pixel (of a run, or with no opcode left)
\* or processes DIFF, LUMA, RGB or RUN leaves the current alpha as it was;
\* alpha changes only on RGBA or on INDEX of a slot with another alpha.
C21_AlphaFramed ==
    [][Dec1Step =>
         LET reads == dec.run = 0 /\ dec.p < dec.data_len
             b1 == dargs.data[dec.p + 1]
         IN  /\ ~reads => dec'.a = dec.a
             /\ (reads /\ (b1 = 254 \/ b1 \in 64..253)) => dec'.a = dec.a
             /\ dec'.a # dec.a =>
                   /\ reads
                   /\ \/ b1 = 255
                      \/ b1 \in 0..63 /\ dec.index[b1 + 1][4] # dec.a]_vars

\* an RGBA opcode set alpha to 4 and the DIFF opcode after it kept it
C21_Witness ==
    /\ pc = "D1_loop" /\ dec.n = 2
    /\ SubSeq(dargs.data, 15, 20) = <<255, 1, 2, 3, 4, 64>>
    /\ dec.r = 255 /\ dec.g = 0 /\ dec.b = 1 /\ dec.a = 4

---------------------------------------------------------------------------
(* Runs of the encoder of src/qoi.py, under Spec. *)

\* the pixels that the opcodes of body from position pos on stand for: n + 1
\* for a RUN byte 0xC0 | n, 1 for every other opcode
RECURSIVE PixelsCovered(_, _)
PixelsCovered(body, pos) ==
    IF pos > Len(body) THEN 0
    ELSE LET b1 == body[pos]
         IN  IF b1 = 254 THEN 1 + PixelsCovered(body, pos + 4)
             ELSE IF b1 = 255 THEN 1 + PixelsCovered(body, pos + 5)
             ELSE IF b1 \in 128..191 THEN 1 + PixelsCovered(body, pos + 2)
             ELSE IF b1 \in 192..253 THEN (b1 - 192) + 1 + PixelsCovered(body, pos + 1)
             ELSE 1 + PixelsCovered(body, pos + 1)

\* C22: an iteration that finds a run pending and writes anything writes the
\* RUN byte of that run first (of run - 1 before the opcode of a pixel that
\* ends it, of run when the pixel joins it), and a pixel that ends it leaves
\* the counter at 0; when the loop is over the counter is 0, and the opcodes
\* of the returned stream stand for exactly width * height pixels.
C22_RunFlushed ==
    /\ [][(pc = "E1_loop" /\ pc' = "E1_loop" /\ enc.i < enc.total_bytes
             /\ enc'.i = enc.i + args.channels /\ enc.run > 0)
          => LET added == SubSeq(enc'.output, Len(enc.output) + 1, Len(enc'.output))
             IN  /\ added = <<>> => enc'.run = enc.run + 1
                 /\ Len(added) = 1 => (added = <<192 + enc.run>> /\ enc'.run = 0)
                 /\ Len(added) > 1 =>
                       (added[1] = 192 + (enc.run - 1) /\ added[2] \notin 192..253
                          /\ enc'.run = 0)]_vars
    /\ []((pc = "E1_loop" /\ BufferFits(args) /\ enc.i >= enc.total_bytes)
             => enc.run = 0)
    /\ []((pc = "E1_returned" /\ eres[2] # 0 /\ BufferFits(args))
             => PixelsCovered(SubSeq(eres[1], 15, eres[2] - 8), 1)
                   = args.width * args.height)

\* two equal pixels and a third: DIFF, the RUN byte of the run of one, LUMA
C22_Witness ==
    /\ pc = "E1_returned" /\ args.channels = 4
    /\ args.pixels = <<1, 1, 1, 255, 1, 1, 1, 255, 5, 0, 0, 255>>
    /\ SubSeq(eres[1], 15, 17) = <<QOI_OP_DIFF + 63, QOI_OP_RUN, QOI_OP_LUMA + 31>>

---------------------------------------------------------------------------
(* The two loops of the encoder of src/qoi.py, under Spec. *)

\* the 4-channel loop of encode run to its end
RECURSIVE RunEnc4(_, _)
RunEnc4(f, pixels) ==
    IF f.i >= f.total_bytes THEN f ELSE RunEnc4(EncIter4(f, pixels), pixels)

\* encode(pixels, width, height, 4, colorspace) of src/qoi.py on valid arguments
Encode4(pixels, width, height, colorspace) ==
    LET f == RunEnc4(EncFrame(pixels, width, height, 4, colorspace), pixels)
    IN  <<f.output \o QOI_PADDING, Len(f.output) + 8>>

\* C23: the stream encode returns for an RGB buffer P with channels = 3 is the
\* stream it returns with channels = 4 for P with alpha 255 added to every
\* pixel, but for the channels byte at offset 12.
C23_LoopsAgree ==
    (pc = "E1_returned" /\ args.channels = 3 /\ eres[2] # 0) =>
       LET other == Encode4(WithAlpha(args.pixels), args.width, args.height,
                            args.colorspace)
       IN  /\ eres[2] = other[2]
           /\ eres[1][13] = 3 /\ other[1][13] = 4
           /\ [eres[1] EXCEPT ![13] = 4] = other[1]

\* an RGB image whose third pixel is found in the index
C23_Witness ==
    /\ pc = "E1_returned" /\ args.channels = 3
    /\ args.pixels = <<5, 0, 0, 255, 0, 0, 5, 0, 0>>
    /\ eres[1][21] = QOI_OP_INDEX + 4

---------------------------------------------------------------------------
(* The decoder of src/qoi.py on the streams of its encoder, under Spec. *)

\* C24: decoding a stream that encode produced, every iteration of decode
\* either repeats a pixel of an open run or reads an opcode, and once the
\* last of the width * height pixels is written the cursor is at
\* len(data) - 8 and the run counter is 0.
C24_BodyConsumed ==
    /\ [][Dec1Step => (dec.run > 0 \/ dec.p < dec.data_len)]_vars
    /\ []((pc \in {"D1_loop", "D1_returned"} /\ dec.live /\ dec.n = dec.px_count)
             => /\ dec.n = args.width * args.height
                /\ dec.p = Len(dargs.data) - 8
                /\ dec.run = 0)

\* DIFF, RUN and LUMA, four bytes, have been consumed for three pixels
C24_Witness ==
    /\ pc = "D1_returned" /\ dec.live
    /\ args.pixels = <<1, 1, 1, 255, 1, 1, 1, 255, 5, 0, 0, 255>>
    /\ Len(dargs.data) = 26
    /\ dec.n = 3 /\ dec.p = 18 /\ dec.run = 0

---------------------------------------------------------------------------
(* The previous pixel of the encoder of src/qoi.py, under Spec. *)

\* C25: at the start of encoding and of every loop iteration, prev_px_int is
\* (prev_r << 24) | (prev_g << 16) | (prev_b << 8) | prev_a, the packing of
\* px_int, and at the start it denotes (0, 0, 0, 255).
C25_PrevRepresentations ==
    pc = "E1_loop" =>
       /\ enc.prev_px_int = <<enc.prev_r, enc.prev_g, enc.prev_b, enc.prev_a>>
       /\ enc.i = 0 => enc.prev_px_int = <<0, 0, 0, 255>>

===========================================================================
